---- MODULE Spec2Model ----
(***************************************************************************)
(* asymmetricfs: the open-file engine of src/src/implementation.cpp.       *)
(*                                                                         *)
(* The mount object (asymmetricfs) holds the mode read_, the id counter    *)
(* next_ and the two tables open_paths_ (logical path -> id) and open_fds_ *)
(* (id -> internal).  The host filesystem below it is a directory (path -> *)
(* inode) and the inodes' contents; a descriptor is an inode and a file    *)
(* offset.  The cipher tool is a child process: Encrypt and Decrypt say    *)
(* what it writes for what it reads, and its exit status.  recipients_ is  *)
(* the recipient list of the mount, and creating holds the create() calls  *)
(* that have opened their backing file and not yet taken the lock.         *)
(*                                                                         *)
(* Bytes are integers.  Plaintext bytes are 0..2 (0 is the byte resize()   *)
(* fills with), an armored ciphertext is Header, the payload bytes shifted *)
(* by ArmorBase, and the terminator line.                                  *)
(***************************************************************************)
EXTENDS Integers, Sequences, FiniteSets, TLC

VARIABLES read_, next_, open_paths_, open_fds_, dir, backing, recipients_,
          creating

vars ==
    <<read_, next_, open_paths_, open_fds_, dir, backing, recipients_, creating>>

(***************************************************************************)
(* Bounds of the model.                                                    *)
(***************************************************************************)
MaxIds  == 2   \* ids handed out by next_fd() in one run
MaxRefs == 2   \* handles sharing one open-file state
MaxLen  == 2   \* longest plaintext the callers of the properties write

Paths == {"/a", "/b"}

(***************************************************************************)
(* errno values and open(2) flag bits used by the callbacks.  A flag word  *)
(* is the set of its bits; O_RDONLY is the empty access mode (value 0).    *)
(***************************************************************************)
ENOENT == 2
EIO    == 5
EBADF  == 9
EACCES == 13
EEXIST == 17
EINVAL == 22
EPIPE  == 32

O_RDONLY  == {}
O_WRONLY  == {"O_WRONLY"}
O_RDWR    == {"O_RDWR"}
O_CREAT   == {"O_CREAT"}
O_EXCL    == {"O_EXCL"}
O_APPEND  == {"O_APPEND"}
O_ACCMODE == {"O_WRONLY", "O_RDWR"}

NoIno == 0

Min(a, b) == IF a < b THEN a ELSE b
Max(a, b) == IF a > b THEN a ELSE b

(***************************************************************************)
(* std::string::resize and memcpy into a string.                           *)
(***************************************************************************)
Resize(s, n) == [i \in 1..n |-> IF i <= Len(s) THEN s[i] ELSE 0]

CopyAt(s, offset, buf) ==
    [i \in 1..Len(s) |->
        IF i > offset /\ i <= offset + Len(buf) THEN buf[i - offset] ELSE s[i]]

(***************************************************************************)
(* write(2) on a descriptor: at the end of the file with O_APPEND, at the  *)
(* file offset otherwise; a gap is a hole of zero bytes.                   *)
(***************************************************************************)
HostWrite(content, pos, append, bytes) ==
    LET at == IF append THEN Len(content) ELSE pos
        n  == Max(Len(content), at + Len(bytes))
    IN  [content |-> CopyAt(Resize(content, n), at, bytes),
         pos     |-> at + Len(bytes)]

(***************************************************************************)
(* The cipher tool.  terminator is the last line of an armored message.    *)
(***************************************************************************)
Header     == 90
ArmorBase  == 10
terminator == <<91, 92>>
terminator_size == Len(terminator)

Encrypt(plain) ==
    <<Header>> \o [i \in 1..Len(plain) |-> ArmorBase + plain[i]] \o terminator

WellFormed(block) ==
    /\ Len(block) >= 1 + terminator_size
    /\ block[1] = Header
    /\ SubSeq(block, Len(block) - terminator_size + 1, Len(block)) = terminator
    /\ \A i \in 2..(Len(block) - terminator_size) :
          block[i] >= ArmorBase /\ block[i] < Header

Payload(block) ==
    [i \in 1..(Len(block) - 1 - terminator_size) |-> block[i + 1] - ArmorBase]

(***************************************************************************)
(* One run of "gpg -d" on the bytes input.  g is what the environment does *)
(* to the run: "ok" (the tool works: exit 0 and the plaintext for one      *)
(* well-formed message, a nonzero exit and no output otherwise), "exit"    *)
(* (nonzero exit, e.g. no secret key), "comm" (communicate() returns an    *)
(* errno although the child exits 0).                                      *)
(***************************************************************************)
GpgOutcomes == {"ok", "exit", "comm"}

Decrypt(input, g) ==
    IF g = "ok" /\ WellFormed(input)
    THEN [out |-> Payload(input), cret |-> 0, wait |-> 0]
    ELSE IF g = "comm"
    THEN [out |-> <<>>, cret |-> EPIPE, wait |-> 0]
    ELSE [out |-> <<>>, cret |-> 0, wait |-> 2]

(***************************************************************************)
(* Faulty variant of make_rdwr: the upgrade to O_RDWR drops the other      *)
(* flags of the word.                                                      *)
(***************************************************************************)
make_rdwr_only(flags) ==
    IF ~read_ THEN flags ELSE O_RDWR

(***************************************************************************)
(* asymmetricfs::make_rdwr.  O_RDONLY is 0, so (flags & O_RDONLY) is never *)
(* set and every flag word is upgraded when read_ holds.                   *)
(***************************************************************************)
make_rdwr(flags) ==
    IF ~read_ THEN flags
    ELSE IF (flags \cap O_RDONLY) # {} THEN flags
    ELSE ((flags \ O_RDONLY) \ O_WRONLY) \cup O_RDWR

\* whether a descriptor opened with the host flags hflags can be written
Writable(hflags) == (hflags \cap O_ACCMODE) # {}

(***************************************************************************)
(* The scan of load_buffer for the end of the block that starts at offset: *)
(* new_offset runs from offset while new_offset <= fd_size -               *)
(* terminator_size, computed in size_t (SizeMod wraps it).  A comparison   *)
(* that would read past the mapped file ends the scan with OutOfFile.      *)
(***************************************************************************)
SizeMod   == 65536
OutOfFile == -1

RECURSIVE ScanTerminator(_, _)
ScanTerminator(underlying, new_offset) ==
    LET fd_size == Len(underlying)
        limit   == (fd_size - terminator_size + SizeMod) % SizeMod
    IN  IF new_offset <= limit
        THEN IF new_offset + terminator_size > fd_size
             THEN OutOfFile
             ELSE IF SubSeq(underlying, new_offset + 1,
                            new_offset + terminator_size) = terminator
                  THEN new_offset + terminator_size
                  ELSE ScanTerminator(underlying, new_offset + 1)
        ELSE new_offset

(***************************************************************************)
(* The block loop of load_buffer, from the block at offset on.  pos is the *)
(* file offset of the descriptor: in the single-block case the child reads *)
(* the descriptor itself, from pos to the end of the file.  chunk_size is  *)
(* the growth of the buffer before each communicate() (1 << 20 in the      *)
(* code, one byte here).                                                   *)
(***************************************************************************)
chunk_size == 1

RECURSIVE LoadBlocks(_, _, _, _, _, _)
LoadBlocks(underlying, pos, offset, buffer, ret, g) ==
    LET fd_size    == Len(underlying)
        new_offset == ScanTerminator(underlying, offset)
        single     == offset = 0 /\ new_offset = fd_size
        input      == IF single
                      THEN SubSeq(underlying, pos + 1, fd_size)
                      ELSE SubSeq(underlying, offset + 1, new_offset)
        r          == Decrypt(input, g)
        buffer1    == IF r.cret # 0
                      THEN Resize(buffer, Len(buffer) + chunk_size)
                      ELSE buffer \o r.out
        ret1       == IF r.cret # 0 THEN -(r.cret) ELSE ret
        pos1       == IF single THEN Max(pos, fd_size) ELSE pos
    IN  IF offset >= fd_size
        THEN [buffer |-> buffer, buffer_set |-> TRUE, ret |-> ret, pos |-> pos]
        ELSE IF new_offset = OutOfFile
        THEN [buffer |-> buffer, buffer_set |-> TRUE, ret |-> OutOfFile,
              pos |-> pos]
        ELSE IF ~single /\ new_offset - offset = 0
        THEN [buffer |-> buffer, buffer_set |-> TRUE, ret |-> ret, pos |-> pos]
        ELSE IF r.wait # 0
        THEN [buffer |-> buffer1, buffer_set |-> FALSE, ret |-> EIO,
              pos |-> pos1]
        ELSE LoadBlocks(underlying, pos1, new_offset, buffer1, ret1, g)

(***************************************************************************)
(* The blocks the loop of load_buffer makes of a file, from the block at   *)
(* offset on, when every child exits 0: each is the bytes from offset to   *)
(* the new_offset the scan gives.                                          *)
(***************************************************************************)
RECURSIVE Blocks(_, _)
Blocks(underlying, offset) ==
    LET fd_size    == Len(underlying)
        new_offset == ScanTerminator(underlying, offset)
        single     == offset = 0 /\ new_offset = fd_size
    IN  IF offset >= fd_size
        THEN <<>>
        ELSE IF new_offset = OutOfFile
        THEN <<>>
        ELSE IF ~single /\ new_offset - offset = 0
        THEN <<>>
        ELSE <<SubSeq(underlying, offset + 1, new_offset)>>
                \o Blocks(underlying, new_offset)

(***************************************************************************)
(* asymmetricfs::internal::load_buffer on the state st, whose descriptor   *)
(* is on a file with the bytes content.  Gives the state after the call,   *)
(* the value returned, and whether the cipher tool was started (ran).      *)
(***************************************************************************)
load_buffer(st, content, g) ==
    IF st.buffer_set
    THEN [st |-> st, ret |-> 0, ran |-> FALSE]
    ELSE LET cleared == [st EXCEPT !.dirty = FALSE, !.buffer = <<>>]
             r == LoadBlocks(content, st.fd.pos, 0, <<>>, 0, g)
         IN  IF Len(content) <= 0
             THEN [st |-> [cleared EXCEPT !.buffer_set = TRUE], ret |-> 0,
                   ran |-> FALSE]
             ELSE [st |-> [cleared EXCEPT !.buffer = r.buffer,
                                          !.buffer_set = r.buffer_set,
                                          !.fd.pos = r.pos],
                   ret |-> r.ret, ran |-> TRUE]

(***************************************************************************)
(* Faulty variant of close(): the dirty buffer is dropped, not flushed.    *)
(***************************************************************************)
close_unflushed(st, content, g) ==
    [content |-> content, ret |-> 0, ran |-> FALSE]

(***************************************************************************)
(* asymmetricfs::internal::close on the state st: when dirty, "gpg -ae"    *)
(* runs with the backing descriptor as its stdout, so the ciphertext goes  *)
(* where a write(2) on that descriptor puts it.  Gives the file's bytes    *)
(* after the call, the value returned, and whether the tool was started.   *)
(***************************************************************************)
close(st, content, g) ==
    LET hflags == make_rdwr(st.flags)
        w == HostWrite(content, st.fd.pos, (O_APPEND \subseteq hflags),
                       Encrypt(st.buffer))
    IN  IF ~st.dirty
        THEN [content |-> content, ret |-> 0, ran |-> FALSE]
        ELSE IF g = "ok" /\ Writable(hflags)
        THEN [content |-> w.content, ret |-> 0, ran |-> TRUE]
        ELSE [content |-> content, ret |-> -EIO, ran |-> TRUE]

(***************************************************************************)
(* The tables: std::map insert (which keeps an existing entry), erase and  *)
(* assignment through an iterator.                                         *)
(***************************************************************************)
MapPut(t, k, v)    == [x \in DOMAIN t \cup {k} |-> IF x = k THEN v ELSE t[x]]
MapInsert(t, k, v) == IF k \in DOMAIN t THEN t ELSE MapPut(t, k, v)
MapErase(t, k)     == [x \in DOMAIN t \ {k} |-> t[x]]

(***************************************************************************)
(* The callbacks are written as operators on the mount m: its id counter,  *)
(* its two tables, and the backing directory and files below it.  Mount is *)
(* the mount of the current state.                                         *)
(***************************************************************************)
Mount ==
    [next |-> next_, paths |-> open_paths_, fds |-> open_fds_, dir |-> dir,
     backing |-> backing]

(***************************************************************************)
(* openat(2) in the backing directory: the inode opened, or the errno.     *)
(* O_CREAT makes an empty file when the path has none.                     *)
(***************************************************************************)
HostOpen(m, path, hflags) ==
    IF m.dir[path] = NoIno
    THEN IF O_CREAT \subseteq hflags
         THEN [errno |-> 0, ino |-> Len(m.backing) + 1, made |-> TRUE]
         ELSE [errno |-> ENOENT, ino |-> NoIno, made |-> FALSE]
    ELSE IF (O_CREAT \cup O_EXCL) \subseteq hflags
         THEN [errno |-> EEXIST, ino |-> NoIno, made |-> FALSE]
         ELSE [errno |-> 0, ino |-> m.dir[path], made |-> FALSE]

NoFh == -1

(***************************************************************************)
(* Faulty variant of next_fd: the lowest id that no state has.             *)
(***************************************************************************)
next_fd_lowest(m) ==
    LET free == CHOOSE i \in 0..m.next :
                    i \notin DOMAIN m.fds /\ \A j \in 0..(i - 1) : j \in DOMAIN m.fds
    IN  [fd |-> free, next |-> Max(m.next, free + 1)]

(***************************************************************************)
(* asymmetricfs::next_fd: the id handed out and the counter after it.      *)
(***************************************************************************)
next_fd(m) == [fd |-> m.next, next |-> m.next + 1]

(***************************************************************************)
(* asymmetricfs::internal as create() and open() fill it in.  wrote and    *)
(* configured are history: a write of size > 0 has succeeded on the state, *)
(* and the recipient list the mount had when the state was constructed.    *)
(* The state itself holds a reference to the mount's list: what close()    *)
(* passes to the cipher tool is recipients_ at the time of the flush.      *)
(***************************************************************************)
NewInternal(ino, flags, path, buffer_set) ==
    [fd |-> [ino |-> ino, pos |-> 0], flags |-> flags, references |-> 1,
     path |-> path, buffer_set |-> buffer_set, dirty |-> FALSE,
     buffer |-> <<>>, wrote |-> FALSE, configured |-> recipients_]

(***************************************************************************)
(* asymmetricfs::create runs in two parts.  create_openat is the part      *)
(* before the lock is taken: O_CREAT is added to the flags and the backing *)
(* file is opened, made if the path has none.  create_locked is the part   *)
(* under the lock: a new id and a new state for the descriptor ino, with   *)
(* no lookup of the path.                                                  *)
(***************************************************************************)
create_openat(m, path, flags0) ==
    LET flags == flags0 \cup O_CREAT
        h     == HostOpen(m, path, make_rdwr(flags))
    IN  IF h.errno # 0
        THEN [ret |-> -(h.errno), flags |-> flags, ino |-> NoIno, m |-> m]
        ELSE [ret |-> 0, flags |-> flags, ino |-> h.ino,
              m |-> [m EXCEPT !.dir[path] = h.ino,
                              !.backing = IF h.made THEN Append(@, <<>>)
                                          ELSE @]]

create_locked(m, path, flags, ino) ==
    LET fd == next_fd(m).fd
    IN  [ret |-> 0, fh |-> fd,
         m |-> [m EXCEPT !.next  = next_fd(m).next,
                         !.paths = MapInsert(@, path, fd),
                         !.fds   = MapInsert(@, fd,
                                      NewInternal(ino, flags, path, TRUE))]]

(***************************************************************************)
(* asymmetricfs::create with nothing running between its two parts: the    *)
(* value returned, the id put in info->fh and the mount after the call.    *)
(***************************************************************************)
create(m, path, flags0) ==
    LET o == create_openat(m, path, flags0)
    IN  IF o.ret # 0
        THEN [ret |-> o.ret, fh |-> NoFh, m |-> m]
        ELSE create_locked(o.m, path, o.flags, o.ino)

Create(path, flags0) ==
    \E r \in {create(Mount, path, flags0)} :
    /\ next_ < MaxIds
    /\ next_' = r.m.next
    /\ open_paths_' = r.m.paths
    /\ open_fds_' = r.m.fds
    /\ dir' = r.m.dir
    /\ backing' = r.m.backing
    /\ UNCHANGED <<read_, recipients_, creating, recipients_, creating>>

(***************************************************************************)
(* asymmetricfs::open.  A path found in open_paths_ must have its id in    *)
(* open_fds_ (the assertion); found |-> FALSE is the failed assertion.     *)
(***************************************************************************)
open(m, path, flags0) ==
    LET access_mode == flags0 \cap O_ACCMODE
        for_reading == access_mode = O_RDWR \/ access_mode = O_RDONLY
        flags == IF ~read_ /\ for_reading /\ O_CREAT \subseteq flags0
                 THEN flags0 \cup O_EXCL ELSE flags0
        h     == HostOpen(m, path, make_rdwr(flags))
        fd    == next_fd(m).fd
        id    == m.paths[path]
        same  == [ret |-> 0, fh |-> NoFh, found |-> TRUE, m |-> m]
    IN  IF path \in DOMAIN m.paths
        THEN IF id \in DOMAIN m.fds
             THEN [same EXCEPT !.fh = id,
                               !.m.fds[id].references = @ + 1]
             ELSE [same EXCEPT !.found = FALSE]
        ELSE IF h.errno # 0
        THEN [same EXCEPT !.ret = -(h.errno)]
        ELSE [same EXCEPT
                !.fh = fd,
                !.m = [next    |-> next_fd(m).next,
                       paths   |-> MapInsert(m.paths, path, fd),
                       fds     |-> MapInsert(m.fds, fd,
                                      NewInternal(h.ino, flags, path,
                                          IF h.made THEN TRUE
                                          ELSE Len(m.backing[h.ino]) = 0)),
                       dir     |-> [m.dir EXCEPT ![path] = h.ino],
                       backing |-> IF h.made THEN Append(m.backing, <<>>)
                                   ELSE m.backing]]

Open(path, flags0) ==
    \E r \in {open(Mount, path, flags0)} :
    /\ r.found
    /\ IF path \in DOMAIN open_paths_
       THEN open_fds_[open_paths_[path]].references < MaxRefs
       ELSE next_ < MaxIds
    /\ next_' = r.m.next
    /\ open_paths_' = r.m.paths
    /\ open_fds_' = r.m.fds
    /\ dir' = r.m.dir
    /\ backing' = r.m.backing
    /\ UNCHANGED <<read_, recipients_, creating, recipients_, creating>>

(***************************************************************************)
(* The flag words create() and open() hand to openat(2), in order, when    *)
(* each attempt fails with EACCES: the word make_rdwr gives and, when the  *)
(* test for the retry holds, the flags without the upgrade.                *)
(***************************************************************************)
create_attempts(flags0) ==
    LET flags == flags0 \cup O_CREAT
    IN  <<make_rdwr(flags)>>
           \o (IF read_ /\ (flags \cap O_WRONLY) # {}
               THEN <<flags>> ELSE <<>>)

open_attempts(flags0) ==
    LET access_mode == flags0 \cap O_ACCMODE
        for_reading == access_mode = O_RDWR \/ access_mode = O_RDONLY
        flags == IF ~read_ /\ for_reading /\ O_CREAT \subseteq flags0
                 THEN flags0 \cup O_EXCL ELSE flags0
    IN  <<make_rdwr(flags)>>
           \o (IF read_ /\ ~for_reading THEN <<flags>> ELSE <<>>)

(***************************************************************************)
(* create() on one thread and open() on another.  CreateOpenat is the      *)
(* first part of a create(): the call is now in creating, with the mount   *)
(* as it was when the call began (m0) and the open() calls that have run   *)
(* since (seen), each with what it returned.  CreateLocked is its second   *)
(* part.  OpenDuring is open(), which holds the lock from its first line   *)
(* to its return, and so runs as one step whether or not a create() is     *)
(* between its parts.                                                      *)
(***************************************************************************)
MaxSeen == 1

CreateOpenat(path, flags0) ==
    \E r \in {create_openat(Mount, path, flags0)} :
    /\ creating = <<>>
    /\ next_ < MaxIds
    /\ r.ret = 0
    /\ dir' = r.m.dir
    /\ backing' = r.m.backing
    /\ creating' = <<[path |-> path, flags0 |-> flags0, flags |-> r.flags,
                      ino |-> r.ino, m0 |-> Mount, seen |-> <<>>]>>
    /\ UNCHANGED <<read_, recipients_, next_, open_paths_, open_fds_>>

CreateLocked ==
    /\ creating # <<>>
    /\ \E r \in {create_locked(Mount, creating[1].path, creating[1].flags,
                                creating[1].ino)} :
          /\ next_' = r.m.next
          /\ open_paths_' = r.m.paths
          /\ open_fds_' = r.m.fds
    /\ creating' = <<>>
    /\ UNCHANGED <<read_, recipients_, dir, backing>>

OpenDuring(path, flags0) ==
    \E r \in {open(Mount, path, flags0)} :
    /\ r.found
    /\ \A i \in DOMAIN creating : Len(creating[i].seen) < MaxSeen
    /\ IF path \in DOMAIN open_paths_
       THEN open_fds_[open_paths_[path]].references < MaxRefs
       ELSE next_ < MaxIds
    /\ next_' = r.m.next
    /\ open_paths_' = r.m.paths
    /\ open_fds_' = r.m.fds
    /\ dir' = r.m.dir
    /\ backing' = r.m.backing
    /\ creating' = [i \in DOMAIN creating |->
                       [creating[i] EXCEPT !.seen =
                           Append(@, [path |-> path, flags0 |-> flags0,
                                      ret |-> r.ret, fh |-> r.fh])]]
    /\ UNCHANGED <<read_, recipients_>>

(***************************************************************************)
(* asymmetricfs::read: the value returned, the bytes copied to the caller  *)
(* and the mount after the call (load_buffer changes the state).           *)
(***************************************************************************)
read(m, fh, size, offset, g) ==
    LET st  == m.fds[fh]
        l   == load_buffer(st, m.backing[st.fd.ino], g)
        str == IF read_ THEN l.st.buffer ELSE st.buffer
        str_size  == Len(str)
        remaining == Min(str_size - offset, size)
        none   == [ret |-> 0, out |-> <<>>, m |-> m, ran |-> FALSE]
        loaded == [none EXCEPT !.m.fds[fh] = l.st, !.ran = l.ran]
    IN  IF fh \notin DOMAIN m.fds
        THEN [none EXCEPT !.ret = -EBADF]
        ELSE IF offset < 0
        THEN none
        ELSE IF ~read_
        THEN IF /\ ~st.buffer_set
                /\ \/ O_APPEND \subseteq st.flags
                   \/ ~(O_CREAT \subseteq st.flags)
             THEN [none EXCEPT !.ret = -EACCES]
             ELSE IF str_size < offset
             THEN none
             ELSE [none EXCEPT
                     !.ret = remaining,
                     !.out = SubSeq(str, offset + 1, offset + remaining)]
        ELSE IF l.ret # 0
        THEN [loaded EXCEPT !.ret = -(l.ret)]
        ELSE IF str_size <= offset
        THEN loaded
        ELSE [loaded EXCEPT !.ret = remaining,
                            !.out = SubSeq(str, 1, remaining)]

Read(fh, size, offset, g) ==
    \E r \in {read(Mount, fh, size, offset, g)} :
    /\ g # "ok" => r.ran
    /\ open_fds_' = r.m.fds
    /\ UNCHANGED <<read_, recipients_, creating, next_, open_paths_, dir, backing>>

(***************************************************************************)
(* Faulty variant of write: the state is not marked dirty.                 *)
(***************************************************************************)
write_unmarked(m, fh, buf, offset) ==
    LET st       == m.fds[fh]
        size     == Len(buf)
        new_size == Max(Len(st.buffer), offset + size)
    IN  IF fh \notin DOMAIN m.fds
        THEN [ret |-> -EBADF, m |-> m]
        ELSE IF size = 0
        THEN [ret |-> 0, m |-> m]
        ELSE IF offset < 0
        THEN [ret |-> -EINVAL, m |-> m]
        ELSE [ret |-> size,
              m |-> [m EXCEPT !.fds[fh] =
                       [st EXCEPT !.buffer = CopyAt(Resize(st.buffer,
                                                 new_size), offset, buf),
                                  !.wrote = TRUE]]]

(***************************************************************************)
(* asymmetricfs::write; size is the length of buf.                         *)
(***************************************************************************)
write(m, fh, buf, offset) ==
    LET st       == m.fds[fh]
        size     == Len(buf)
        new_size == Max(Len(st.buffer), offset + size)
    IN  IF fh \notin DOMAIN m.fds
        THEN [ret |-> -EBADF, m |-> m]
        ELSE IF size = 0
        THEN [ret |-> 0, m |-> m]
        ELSE IF offset < 0
        THEN [ret |-> -EINVAL, m |-> m]
        ELSE [ret |-> size,
              m |-> [m EXCEPT !.fds[fh] =
                       [st EXCEPT !.buffer = CopyAt(Resize(st.buffer,
                                                 new_size), offset, buf),
                                  !.dirty = TRUE,
                                  !.wrote = TRUE]]]

Write(fh, buf, offset) ==
    \E r \in {write(Mount, fh, buf, offset)} :
    /\ open_fds_' = r.m.fds
    /\ UNCHANGED <<read_, recipients_, creating, next_, open_paths_, dir, backing>>

(***************************************************************************)
(* Faulty variant of truncatefd: truncation to 0 inverts dirty.            *)
(***************************************************************************)
truncatefd_flip(m, fd, offset, g) ==
    LET st   == m.fds[fd]
        l    == load_buffer(st, m.backing[st.fd.ino], g)
        none == [ret |-> 0, m |-> m, ran |-> FALSE]
    IN  IF fd \notin DOMAIN m.fds
        THEN [none EXCEPT !.ret = -EBADF]
        ELSE IF offset < 0
        THEN [none EXCEPT !.ret = -EINVAL]
        ELSE IF offset = 0
        THEN IF ~Writable(make_rdwr(st.flags))
             THEN [none EXCEPT !.ret = -EINVAL]
             ELSE [none EXCEPT
                     !.m.fds[fd] = [st EXCEPT !.buffer = Resize(st.buffer, 0),
                                              !.dirty = ~st.dirty],
                     !.m.backing[st.fd.ino] = <<>>]
        ELSE IF read_
        THEN IF l.ret # 0
             THEN [none EXCEPT !.ret = -(l.ret), !.ran = l.ran,
                               !.m.fds[fd] = l.st]
             ELSE [none EXCEPT
                     !.ran = l.ran,
                     !.m.fds[fd] = [l.st EXCEPT
                                      !.buffer = Resize(l.st.buffer, offset),
                                      !.dirty = TRUE]]
        ELSE [none EXCEPT !.ret = -EACCES]

(***************************************************************************)
(* Faulty variant of truncatefd: the refusal in write-only mode marks the  *)
(* state dirty.                                                            *)
(***************************************************************************)
truncatefd_marks(m, fd, offset, g) ==
    LET st   == m.fds[fd]
        l    == load_buffer(st, m.backing[st.fd.ino], g)
        none == [ret |-> 0, m |-> m, ran |-> FALSE]
    IN  IF fd \notin DOMAIN m.fds
        THEN [none EXCEPT !.ret = -EBADF]
        ELSE IF offset < 0
        THEN [none EXCEPT !.ret = -EINVAL]
        ELSE IF offset = 0
        THEN IF ~Writable(make_rdwr(st.flags))
             THEN [none EXCEPT !.ret = -EINVAL]
             ELSE [none EXCEPT
                     !.m.fds[fd] = [st EXCEPT !.buffer = Resize(st.buffer, 0),
                                              !.dirty = TRUE],
                     !.m.backing[st.fd.ino] = <<>>]
        ELSE IF read_
        THEN IF l.ret # 0
             THEN [none EXCEPT !.ret = -(l.ret), !.ran = l.ran,
                               !.m.fds[fd] = l.st]
             ELSE [none EXCEPT
                     !.ran = l.ran,
                     !.m.fds[fd] = [l.st EXCEPT
                                      !.buffer = Resize(l.st.buffer, offset),
                                      !.dirty = TRUE]]
        ELSE [none EXCEPT !.ret = -EACCES, !.m.fds[fd].dirty = TRUE]

(***************************************************************************)
(* Faulty variant of truncatefd: truncation to 0 also forgets that the     *)
(* buffer is known.                                                        *)
(***************************************************************************)
truncatefd_forget(m, fd, offset, g) ==
    LET st   == m.fds[fd]
        l    == load_buffer(st, m.backing[st.fd.ino], g)
        none == [ret |-> 0, m |-> m, ran |-> FALSE]
    IN  IF fd \notin DOMAIN m.fds
        THEN [none EXCEPT !.ret = -EBADF]
        ELSE IF offset < 0
        THEN [none EXCEPT !.ret = -EINVAL]
        ELSE IF offset = 0
        THEN IF ~Writable(make_rdwr(st.flags))
             THEN [none EXCEPT !.ret = -EINVAL]
             ELSE [none EXCEPT
                     !.m.fds[fd] = [st EXCEPT !.buffer = Resize(st.buffer, 0),
                                              !.buffer_set = FALSE,
                                              !.dirty = TRUE],
                     !.m.backing[st.fd.ino] = <<>>]
        ELSE IF read_
        THEN IF l.ret # 0
             THEN [none EXCEPT !.ret = -(l.ret), !.ran = l.ran,
                               !.m.fds[fd] = l.st]
             ELSE [none EXCEPT
                     !.ran = l.ran,
                     !.m.fds[fd] = [l.st EXCEPT
                                      !.buffer = Resize(l.st.buffer, offset),
                                      !.dirty = TRUE]]
        ELSE [none EXCEPT !.ret = -EACCES]

(***************************************************************************)
(* asymmetricfs::truncatefd: the value returned and the mount after the    *)
(* call.  ftruncate(2) needs a descriptor open for writing.                *)
(***************************************************************************)
truncatefd(m, fd, offset, g) ==
    LET st   == m.fds[fd]
        l    == load_buffer(st, m.backing[st.fd.ino], g)
        none == [ret |-> 0, m |-> m, ran |-> FALSE]
    IN  IF fd \notin DOMAIN m.fds
        THEN [none EXCEPT !.ret = -EBADF]
        ELSE IF offset < 0
        THEN [none EXCEPT !.ret = -EINVAL]
        ELSE IF offset = 0
        THEN IF ~Writable(make_rdwr(st.flags))
             THEN [none EXCEPT !.ret = -EINVAL]
             ELSE [none EXCEPT
                     !.m.fds[fd] = [st EXCEPT !.buffer = Resize(st.buffer, 0),
                                              !.dirty = TRUE],
                     !.m.backing[st.fd.ino] = <<>>]
        ELSE IF read_
        THEN IF l.ret # 0
             THEN [none EXCEPT !.ret = -(l.ret), !.ran = l.ran,
                               !.m.fds[fd] = l.st]
             ELSE [none EXCEPT
                     !.ran = l.ran,
                     !.m.fds[fd] = [l.st EXCEPT
                                      !.buffer = Resize(l.st.buffer, offset),
                                      !.dirty = TRUE]]
        ELSE [none EXCEPT !.ret = -EACCES]

(***************************************************************************)
(* asymmetricfs::ftruncate                                                 *)
(***************************************************************************)
Ftruncate(fh, offset, g) ==
    \E r \in {truncatefd(Mount, fh, offset, g)} :
    /\ g # "ok" => r.ran
    /\ open_fds_' = r.m.fds
    /\ backing' = r.m.backing
    /\ UNCHANGED <<read_, recipients_, creating, next_, open_paths_, dir>>

(***************************************************************************)
(* asymmetricfs::truncate.  The transient internal of the not-open case is *)
(* built by the constructor, which leaves buffer_set uninitialized:        *)
(* buffer_set is whatever the stack held.  g is the tool's behaviour in    *)
(* load_buffer, ge in the flush of close().  transient, ran and eran tell  *)
(* whether the transient state was built and the tool started for the load *)
(* and for the flush.                                                      *)
(***************************************************************************)
truncate(m, path, offset, buffer_set, g, ge) ==
    LET ino  == m.dir[path]
        data == [NewInternal(ino, O_RDWR, path, buffer_set)
                    EXCEPT !.references = 0]
        l    == load_buffer(data, m.backing[ino], g)
        cut  == [l.st EXCEPT !.buffer = Resize(l.st.buffer, offset),
                             !.dirty = TRUE]
        c    == close(cut, m.backing[ino], ge)
        t    == truncatefd(m, m.paths[path], offset, g)
        none == [ret |-> 0, m |-> m, transient |-> FALSE, ran |-> FALSE,
                 eran |-> FALSE]
    IN  IF offset < 0
        THEN [none EXCEPT !.ret = -EINVAL]
        ELSE IF path \in DOMAIN m.paths
        THEN [none EXCEPT !.ret = t.ret, !.m = t.m, !.ran = t.ran]
        ELSE IF offset = 0
        THEN IF ino = NoIno
             THEN [none EXCEPT !.ret = -ENOENT]
             ELSE [none EXCEPT !.m.backing[ino] = <<>>]
        ELSE IF read_
        THEN IF ino = NoIno
             THEN [none EXCEPT !.ret = -ENOENT]
             ELSE IF l.ret # 0
             THEN [none EXCEPT !.ret = -(l.ret), !.transient = TRUE,
                               !.ran = l.ran]
             ELSE [none EXCEPT
                     !.ret = IF c.ret = 0 THEN 0 ELSE -(c.ret),
                     !.m.backing[ino] = c.content,
                     !.transient = TRUE, !.ran = l.ran, !.eran = c.ran]
        ELSE [none EXCEPT !.ret = -EACCES]

Truncate(path, offset, buffer_set, g, ge) ==
    \E r \in {truncate(Mount, path, offset, buffer_set, g, ge)} :
    /\ buffer_set => r.transient
    /\ g # "ok" => r.ran
    /\ ge # "ok" => r.eran
    /\ open_fds_' = r.m.fds
    /\ backing' = r.m.backing
    /\ UNCHANGED <<read_, recipients_, creating, next_, open_paths_, dir>>

(***************************************************************************)
(* Faulty variant of release: the last release leaves the path entry.      *)
(***************************************************************************)
release_keep_path(m, fh, g) ==
    LET st        == m.fds[fh]
        new_count == st.references - 1
        c         == close(st, m.backing[st.fd.ino], g)
    IN  IF fh \notin DOMAIN m.fds
        THEN [ret |-> 0, m |-> m, ran |-> FALSE]
        ELSE IF new_count = 0
        THEN [ret |-> 0,
              m   |-> [m EXCEPT !.fds = MapErase(m.fds, fh),
                                !.backing[st.fd.ino] = c.content],
              ran |-> c.ran]
        ELSE [ret |-> 0, m |-> [m EXCEPT !.fds[fh].references = new_count],
              ran |-> FALSE]

(***************************************************************************)
(* asymmetricfs::release.  Deleting the state runs ~internal, which calls  *)
(* close(); what close() returns is dropped.                               *)
(***************************************************************************)
release(m, fh, g) ==
    LET st        == m.fds[fh]
        new_count == st.references - 1
        c         == close(st, m.backing[st.fd.ino], g)
    IN  IF fh \notin DOMAIN m.fds
        THEN [ret |-> 0, m |-> m, ran |-> FALSE]
        ELSE IF new_count = 0
        THEN [ret |-> 0,
              m   |-> [m EXCEPT !.paths = MapErase(m.paths, st.path),
                                !.fds = MapErase(m.fds, fh),
                                !.backing[st.fd.ino] = c.content],
              ran |-> c.ran]
        ELSE [ret |-> 0, m |-> [m EXCEPT !.fds[fh].references = new_count],
              ran |-> FALSE]

Release(fh, g) ==
    \E r \in {release(Mount, fh, g)} :
    /\ g # "ok" => r.ran
    /\ open_paths_' = r.m.paths
    /\ open_fds_' = r.m.fds
    /\ backing' = r.m.backing
    /\ UNCHANGED <<read_, recipients_, creating, next_, dir>>

(***************************************************************************)
(* The states on which ~internal runs, as they are when it runs: the state *)
(* release() deletes after the decrement, the transient state of           *)
(* truncate() on a path that is not open (destroyed at every return after  *)
(* its construction), and the states ~asymmetricfs deletes, which are all  *)
(* that open_fds_ holds.  The destructor asserts references == 0.          *)
(***************************************************************************)
release_deletes(m, fh) ==
    IF fh \in DOMAIN m.fds /\ m.fds[fh].references - 1 = 0
    THEN {[m.fds[fh] EXCEPT !.references = @ - 1]}
    ELSE {}

truncate_deletes(m, path, offset, buffer_set) ==
    IF offset > 0 /\ path \notin DOMAIN m.paths /\ read_
          /\ m.dir[path] # NoIno
    THEN {[NewInternal(m.dir[path], O_RDWR, path, buffer_set)
              EXCEPT !.references = 0]}
    ELSE {}

dtor_deletes(m) == {m.fds[fh] : fh \in DOMAIN m.fds}

(***************************************************************************)
(* asymmetricfs::~asymmetricfs: the states are deleted in the order of     *)
(* their ids, and each ~internal calls close(), which flushes a dirty      *)
(* buffer.  Gives the backing files after it.                              *)
(***************************************************************************)
RECURSIVE dtor(_, _, _)
dtor(m, ids, g) ==
    LET fh == CHOOSE x \in ids : \A y \in ids : x <= y
        st == m.fds[fh]
        c  == close(st, m.backing[st.fd.ino], g)
    IN  IF ids = {}
        THEN m.backing
        ELSE dtor([m EXCEPT !.backing[st.fd.ino] = c.content], ids \ {fh}, g)

(***************************************************************************)
(* The mount object is destroyed, with whatever is open, and a new one is  *)
(* constructed on the same directory in the same mode.  Files grow from    *)
(* mount to mount; the directory is mounted again only while no file is    *)
(* longer than MaxFile bytes.                                              *)
(***************************************************************************)
MaxFile == 5

Remount(g) ==
    \E r \in {dtor(Mount, DOMAIN open_fds_, g)} :
    /\ creating = <<>>
    /\ \A ino \in DOMAIN backing : Len(backing[ino]) <= MaxFile
    /\ next_' = 0
    /\ open_paths_' = <<>>
    /\ open_fds_' = <<>>
    /\ backing' = r
    /\ UNCHANGED <<read_, recipients_, creating, dir>>

(***************************************************************************)
(* Faulty variant of rename: the entry of the old path stays in the path   *)
(* table.                                                                  *)
(***************************************************************************)
rename_keep_old(m, oldpath, newpath) ==
    LET fd == m.paths[oldpath]
    IN  IF m.dir[oldpath] = NoIno
        THEN [ret |-> -ENOENT, found |-> TRUE, m |-> m]
        ELSE [ret |-> 0,
              found |-> oldpath \in DOMAIN m.paths => fd \in DOMAIN m.fds,
              m |-> [m EXCEPT
                !.paths = IF oldpath \in DOMAIN m.paths
                          THEN MapInsert(m.paths, newpath, fd)
                          ELSE m.paths,
                !.fds = IF oldpath \in DOMAIN m.paths /\ fd \in DOMAIN m.fds
                        THEN [m.fds EXCEPT ![fd].path = newpath]
                        ELSE m.fds,
                !.dir = IF oldpath = newpath THEN m.dir
                        ELSE [m.dir EXCEPT ![newpath] = m.dir[oldpath],
                                           ![oldpath] = NoIno]]]

(***************************************************************************)
(* asymmetricfs::rename.  rename(2) moves the directory entry; descriptors *)
(* that are open on either file stay on their inodes.                      *)
(***************************************************************************)
rename(m, oldpath, newpath) ==
    LET fd == m.paths[oldpath]
    IN  IF m.dir[oldpath] = NoIno
        THEN [ret |-> -ENOENT, found |-> TRUE, m |-> m]
        ELSE [ret |-> 0,
              found |-> oldpath \in DOMAIN m.paths => fd \in DOMAIN m.fds,
              m |-> [m EXCEPT
                !.paths = IF oldpath \in DOMAIN m.paths
                          THEN MapErase(MapInsert(m.paths, newpath, fd),
                                        oldpath)
                          ELSE m.paths,
                !.fds = IF oldpath \in DOMAIN m.paths /\ fd \in DOMAIN m.fds
                        THEN [m.fds EXCEPT ![fd].path = newpath]
                        ELSE m.fds,
                !.dir = IF oldpath = newpath THEN m.dir
                        ELSE [m.dir EXCEPT ![newpath] = m.dir[oldpath],
                                           ![oldpath] = NoIno]]]

Rename(oldpath, newpath) ==
    \E r \in {rename(Mount, oldpath, newpath)} :
    /\ r.found
    /\ open_paths_' = r.m.paths
    /\ open_fds_' = r.m.fds
    /\ dir' = r.m.dir
    /\ UNCHANGED <<read_, recipients_, creating, next_, backing>>

(***************************************************************************)
(* Faulty variant of statfd: the buffer is loaded in write-only mode too.  *)
(***************************************************************************)
statfd_loads(m, fd, g) ==
    LET st   == m.fds[fd]
        s    == Len(m.backing[st.fd.ino])
        l    == load_buffer(st, m.backing[st.fd.ino], g)
        it   == l.st
        size == Len(it.buffer)
        none == [ret |-> 0, st_size |-> 0, m |-> m, ran |-> FALSE]
        seen == [none EXCEPT !.m.fds[fd] = l.st, !.ran = l.ran]
    IN  IF fd \notin DOMAIN m.fds
        THEN [none EXCEPT !.ret = -EBADF]
        ELSE IF l.ret # 0
        THEN [seen EXCEPT !.ret = -(l.ret)]
        ELSE [seen EXCEPT
                !.st_size = IF it.buffer_set THEN size
                            ELSE IF O_APPEND \subseteq it.flags THEN s + size
                            ELSE s]

(***************************************************************************)
(* asymmetricfs::statfd: the value returned, st_size and the mount after   *)
(* the call.                                                               *)
(***************************************************************************)
statfd(m, fd, g) ==
    LET st   == m.fds[fd]
        s    == Len(m.backing[st.fd.ino])
        l    == load_buffer(st, m.backing[st.fd.ino], g)
        it   == IF read_ THEN l.st ELSE st
        size == Len(it.buffer)
        none == [ret |-> 0, st_size |-> 0, m |-> m, ran |-> FALSE]
        seen == IF read_
                THEN [none EXCEPT !.m.fds[fd] = l.st, !.ran = l.ran]
                ELSE none
    IN  IF fd \notin DOMAIN m.fds
        THEN [none EXCEPT !.ret = -EBADF]
        ELSE IF read_ /\ l.ret # 0
        THEN [seen EXCEPT !.ret = -(l.ret)]
        ELSE [seen EXCEPT
                !.st_size = IF it.buffer_set THEN size
                            ELSE IF O_APPEND \subseteq it.flags THEN s + size
                            ELSE s]

(***************************************************************************)
(* asymmetricfs::fgetattr                                                  *)
(***************************************************************************)
Fgetattr(fh, g) ==
    \E r \in {statfd(Mount, fh, g)} :
    /\ g # "ok" => r.ran
    /\ open_fds_' = r.m.fds
    /\ UNCHANGED <<read_, recipients_, creating, next_, open_paths_, dir, backing>>

(***************************************************************************)
(* Faulty variant of getattr: the backing file is asked even when the path *)
(* is open.                                                                *)
(***************************************************************************)
getattr_lstat(m, path, g) ==
    LET none == [ret |-> 0, st_size |-> 0, m |-> m, ran |-> FALSE]
    IN  IF m.dir[path] = NoIno
        THEN [none EXCEPT !.ret = -ENOENT]
        ELSE [none EXCEPT !.st_size = Len(m.backing[m.dir[path]])]

(***************************************************************************)
(* asymmetricfs::getattr                                                   *)
(***************************************************************************)
getattr(m, path, g) ==
    LET none == [ret |-> 0, st_size |-> 0, m |-> m, ran |-> FALSE]
    IN  IF path \in DOMAIN m.paths
        THEN statfd(m, m.paths[path], g)
        ELSE IF m.dir[path] = NoIno
        THEN [none EXCEPT !.ret = -ENOENT]
        ELSE [none EXCEPT !.st_size = Len(m.backing[m.dir[path]])]

Getattr(path, g) ==
    \E r \in {getattr(Mount, path, g)} :
    /\ g # "ok" => r.ran
    /\ open_fds_' = r.m.fds
    /\ UNCHANGED <<read_, recipients_, creating, next_, open_paths_, dir, backing>>

(***************************************************************************)
(* The st_mode that getattr reports for a path that is not open, where     *)
(* st_mode is what lstat(2) gives for the backing file.  A mode is the set *)
(* of its bits, the file type being the bit S_IFDIR.  An open path goes    *)
(* through statfd, which hands the fstat(2) mode on as it is.              *)
(***************************************************************************)
S_IFDIR == {"S_IFDIR"}
S_IRUSR == {"S_IRUSR"}
S_IWUSR == {"S_IWUSR"}
S_IRGRP == {"S_IRGRP"}
S_IROTH == {"S_IROTH"}
S_IXOTH == {"S_IXOTH"}

S_ISDIR(st_mode) == (st_mode \cap S_IFDIR) # {}

(***************************************************************************)
(* Faulty variant of getattr_st_mode: directories lose the bits as well.   *)
(***************************************************************************)
getattr_st_mode_any(m, path, st_mode) ==
    IF path \in DOMAIN m.paths
    THEN st_mode
    ELSE IF ~read_
    THEN st_mode \ (S_IRUSR \cup S_IRGRP \cup S_IROTH)
    ELSE st_mode

getattr_st_mode(m, path, st_mode) ==
    IF path \in DOMAIN m.paths
    THEN st_mode
    ELSE IF ~read_ /\ ~S_ISDIR(st_mode)
    THEN st_mode \ (S_IRUSR \cup S_IRGRP \cup S_IROTH)
    ELSE st_mode

(***************************************************************************)
(* asymmetricfs::access.  A mode is the set of its bits; herrno is what    *)
(* access(2) on the backing file gives: 0, or the errno it fails with.     *)
(***************************************************************************)
R_OK == {"R_OK"}
W_OK == {"W_OK"}

HostAccess(m, path) ==
    IF m.dir[path] = NoIno THEN {ENOENT} ELSE {0, EACCES}

access(m, path, mode, herrno) ==
    LET ret == IF (mode \cap R_OK) # {} /\ ~read_ THEN -EACCES ELSE 0
    IN  IF herrno = 0 THEN ret ELSE -herrno

Access(path, mode) ==
    \E herrno \in HostAccess(Mount, path) :
    \E r \in {access(Mount, path, mode, herrno)} :
    /\ r \in Int
    /\ UNCHANGED vars

(***************************************************************************)
(* Faulty variant of set_recipients: the list is replaced whatever is open.*)
(***************************************************************************)
set_recipients_unchecked(m, recipients) ==
    [threw |-> FALSE, recipients_ |-> recipients]

(***************************************************************************)
(* asymmetricfs::set_recipients: whether it threw, and the list after it.  *)
(***************************************************************************)
set_recipients(m, recipients) ==
    IF m.fds # <<>>
    THEN [threw |-> TRUE, recipients_ |-> recipients_]
    ELSE [threw |-> FALSE, recipients_ |-> recipients]

SetRecipients(recipients) ==
    \E r \in {set_recipients(Mount, recipients)} :
    /\ recipients_' = r.recipients_
    /\ UNCHANGED <<read_, next_, open_paths_, open_fds_, dir, backing,
                   creating>>

(***************************************************************************)
(* The mount.  set_read() and set_recipients() are called before serving   *)
(* begins, and no create() is under way.  The backing directory holds what *)
(* earlier mounts left in it: each of the paths in old is absent or holds  *)
(* the ciphertext of one flush, or of a flush and an append; the other     *)
(* paths are absent.                                                       *)
(***************************************************************************)
OldFiles == {Encrypt(<<1>>), Encrypt(<<2>>) \o Encrypt(<<1>>)}

InitDirs(old) ==
    {d \in [Paths -> 0..Cardinality(old)] :
        \A p, q \in Paths :
            /\ p \notin old => d[p] = NoIno
            /\ d[p] # NoIno /\ d[q] # NoIno /\ p # q => d[p] # d[q]
            /\ d[p] <= Cardinality({x \in Paths : d[x] # NoIno})}

MountedOn(old, files) ==
    /\ read_ \in BOOLEAN
    /\ next_ = 0
    /\ open_paths_ = <<>>
    /\ open_fds_ = <<>>
    /\ dir \in InitDirs(old)
    /\ backing \in [1..Cardinality({p \in Paths : dir[p] # NoIno}) -> files]
    /\ recipients_ = <<"k1">>
    /\ creating = <<>>

Mounted(old) == MountedOn(old, OldFiles)

(***************************************************************************)
(* Files whose last message is cut short, as a flush that was interrupted  *)
(* leaves them: the terminator is missing, or only the first byte of the   *)
(* next message is there.                                                  *)
(***************************************************************************)
CutFiles ==
    {<<Header, ArmorBase + 1>>,
     Encrypt(<<2>>) \o <<Header, ArmorBase + 1>>,
     Encrypt(<<1>>) \o <<Header>>}

(***************************************************************************)
(* What the callers pass, and what the environment does to the cipher      *)
(* tool.  close() looks only at the exit status of "gpg -ae".              *)
(***************************************************************************)
CreateFlags == {O_RDWR}
OpenFlags   == {O_RDONLY, O_WRONLY \cup O_APPEND, O_RDWR \cup O_CREAT}
Fhs         == 0..(MaxIds - 1)
Bufs        == {<<>>, <<2, 1>>}
EncOutcomes == {"ok", "exit"}
AccessModes == {R_OK, W_OK, R_OK \cup W_OK}
RecipientLists == {<<"k1">>, <<"k2", "k1">>}
HostModes   == SUBSET (S_IFDIR \cup S_IRUSR \cup S_IWUSR \cup S_IRGRP
                          \cup S_IROTH \cup S_IXOTH)

(***************************************************************************)
(* One callback of the mount, for callers that use the paths in paths and  *)
(* truncate to the lengths in cuts, and a cipher tool that does what dec   *)
(* (decryption) and enc (encryption) list.                                 *)
(***************************************************************************)
Callback(paths, cuts, dec, enc) ==
    \/ \E path \in paths, flags \in CreateFlags : Create(path, flags)
    \/ \E path \in paths, flags \in OpenFlags : Open(path, flags)
    \/ \E fh \in Fhs, offset \in {-1, 0}, g \in dec : Read(fh, 3, offset, g)
    \/ \E fh \in Fhs, buf \in Bufs, offset \in {-1, 0} : Write(fh, buf, offset)
    \/ \E fh \in Fhs, offset \in cuts, g \in dec : Ftruncate(fh, offset, g)
    \/ \E path \in paths, offset \in cuts, buffer_set \in BOOLEAN,
          g \in dec, ge \in enc :
          Truncate(path, offset, buffer_set, g, ge)
    \/ \E fh \in Fhs, g \in enc : Release(fh, g)
    \/ \E oldpath \in paths, newpath \in paths : Rename(oldpath, newpath)
    \/ \E fh \in Fhs, g \in dec : Fgetattr(fh, g)
    \/ \E path \in paths, g \in dec : Getattr(path, g)
    \/ \E path \in paths, mode \in AccessModes : Access(path, mode)

(***************************************************************************)
(* Spec: two paths in a backing directory that is empty at mount, and a    *)
(* cipher tool that works.  SpecFaulty: one path, which may hold an old    *)
(* file at mount, and a cipher tool that may fail.                         *)
(***************************************************************************)
Init == Mounted({})

Next == Callback(Paths, {-1, 0, 1}, {"ok"}, {"ok"})

Spec == Init /\ [][Next]_vars

InitFaulty == Mounted({"/a"})

NextFaulty == Callback({"/a"}, {-1, 0}, GpgOutcomes, EncOutcomes)

SpecFaulty == InitFaulty /\ [][NextFaulty]_vars

(***************************************************************************)
(* SpecConfig: one path in a directory that is empty at mount, a cipher    *)
(* tool that works, and an owner of the mount who calls set_recipients()   *)
(* at any time.                                                            *)
(***************************************************************************)
InitConfig == Mounted({})

NextConfig ==
    \/ Callback({"/a"}, {0}, {"ok"}, {"ok"})
    \/ \E recipients \in RecipientLists : SetRecipients(recipients)

SpecConfig == InitConfig /\ [][NextConfig]_vars

(***************************************************************************)
(* SpecCut: one path, which at mount may hold a whole old file or one      *)
(* whose last message is cut short, and a cipher tool that works.          *)
(***************************************************************************)
InitCut == MountedOn({"/a"}, OldFiles \cup CutFiles)

NextCut == Callback({"/a"}, {0}, {"ok"}, {"ok"})

SpecCut == InitCut /\ [][NextCut]_vars

(***************************************************************************)
(* SpecRemount: one path in a directory that is empty at the first mount,  *)
(* a cipher tool that works, callers that create, open, write and release, *)
(* and an owner who may destroy the mount object at any time and mount the *)
(* directory again.                                                        *)
(***************************************************************************)
InitRemount == Mounted({})

NextRemount ==
    \/ \E flags \in CreateFlags : Create("/a", flags)
    \/ \E flags \in OpenFlags : Open("/a", flags)
    \/ \E fh \in Fhs, buf \in Bufs : Write(fh, buf, 0)
    \/ \E fh \in Fhs : Release(fh, "ok")
    \/ Remount("ok")

SpecRemount == InitRemount /\ [][NextRemount]_vars

(***************************************************************************)
(* SpecShort: one path, which at mount may hold a whole old file or a file *)
(* shorter than the terminator, and a cipher tool that works.  A load      *)
(* whose scan leaves the mapped file reads memory that is not the file's;  *)
(* the process does not survive that, so a read that would do so has no    *)
(* next state here.                                                        *)
(***************************************************************************)
ShortFiles == {<<Header>>}

ScanLeavesFile(fh) ==
    /\ fh \in DOMAIN open_fds_
    /\ read_
    /\ load_buffer(open_fds_[fh], backing[open_fds_[fh].fd.ino], "ok").ret
          = OutOfFile

InitShort == MountedOn({"/a"}, OldFiles \cup ShortFiles)

NextShort ==
    \/ \E flags \in CreateFlags : Create("/a", flags)
    \/ \E flags \in OpenFlags : Open("/a", flags)
    \/ \E fh \in Fhs, buf \in Bufs : Write(fh, buf, 0)
    \/ \E fh \in Fhs : ~ScanLeavesFile(fh) /\ Read(fh, 3, 0, "ok")
    \/ \E fh \in Fhs : Release(fh, "ok")

SpecShort == InitShort /\ [][NextShort]_vars

(***************************************************************************)
(* SpecRace: two threads on one path in a directory that is empty at       *)
(* mount.  A create() may be between its two parts while open() runs; the  *)
(* other callbacks run when no create() is under way.                      *)
(***************************************************************************)
InitRace == Mounted({})

NextRace ==
    \/ \E flags \in CreateFlags : CreateOpenat("/a", flags)
    \/ CreateLocked
    \/ \E flags \in OpenFlags : OpenDuring("/a", flags)
    \/ \E fh \in Fhs, buf \in Bufs :
          creating = <<>> /\ Write(fh, buf, 0)
    \/ \E fh \in Fhs :
          creating = <<>> /\ Release(fh, "ok")

SpecRace == InitRace /\ [][NextRace]_vars

(***************************************************************************)
(* The properties.  Plaintexts are the byte sequences the callers of the   *)
(* properties write.  PlainOf(F) reads the file F as the spec describes    *)
(* it: a concatenation of armored messages, each ending with the           *)
(* terminator; plain is the concatenation of their plaintexts.             *)
(***************************************************************************)
Bytes == 1..2

Plaintexts == UNION {[1..n -> Bytes] : n \in 0..MaxLen}

RECURSIVE PlainOf(_)
PlainOf(F) ==
    LET ends == {k \in terminator_size..Len(F) :
                    SubSeq(F, k - terminator_size + 1, k) = terminator}
        k    == CHOOSE x \in ends : \A y \in ends : x <= y
        rest == PlainOf(SubSeq(F, k + 1, Len(F)))
    IN  IF F = <<>>
        THEN [ok |-> TRUE, plain |-> <<>>]
        ELSE IF ends = {} \/ ~WellFormed(SubSeq(F, 1, k))
        THEN [ok |-> FALSE, plain |-> <<>>]
        ELSE [ok |-> rest.ok, plain |-> Payload(SubSeq(F, 1, k)) \o rest.plain]

\* the first n bytes of s from offset on
Slice(s, offset, n) ==
    SubSeq(s, offset + 1, offset + Max(0, Min(Len(s) - offset, n)))

(***************************************************************************)
(* C1: round trip in read/write mode.  From every reachable state and for  *)
(* every path that names no file, create(path), write(B, offset 0),        *)
(* release, open(path), read(size >= |B|, offset 0) all succeed and the    *)
(* read returns |B| and the bytes B.                                       *)
(***************************************************************************)
RoundTrip(m, path, B, size) ==
    LET c == create(m, path, O_RDWR)
        w == write(c.m, c.fh, B, 0)
        r == release(w.m, c.fh, "ok")
        o == open(r.m, path, O_RDONLY)
        d == read(o.m, o.fh, size, 0, "ok")
    IN  [ok  |-> c.ret = 0 /\ w.ret = Len(B) /\ o.ret = 0 /\ o.found,
         ret |-> d.ret, out |-> d.out]

C1_RoundTrip ==
    read_ =>
      \A path \in Paths, B \in Plaintexts, more \in {0, 1} :
         dir[path] = NoIno =>
            LET t == RoundTrip(Mount, path, B, Len(B) + more)
            IN  t.ok /\ t.ret = Len(B) /\ t.out = B

\* the round trip has been made with B = <<2, 1>>: the file is one message
\* and the state opened on it afterwards has read it
C1_Witness ==
    /\ read_
    /\ \E fh \in DOMAIN open_fds_ :
          LET st == open_fds_[fh] IN
          /\ st.flags = O_RDONLY /\ st.buffer_set /\ ~st.dirty /\ ~st.wrote
          /\ st.buffer = <<2, 1>>
          /\ backing[st.fd.ino] = Encrypt(<<2, 1>>)
          /\ read(Mount, fh, 3, 0, "ok").out = <<2, 1>>

(***************************************************************************)
(* C2: the release that drops the last reference of a dirty state (not     *)
(* opened with O_APPEND) leaves a backing file that is exactly the         *)
(* encryption of the final buffer: no earlier block before or after it.    *)
(***************************************************************************)
C2_ReleaseRewrites ==
    \A fh \in DOMAIN open_fds_ :
       LET st == open_fds_[fh] IN
       (st.references = 1 /\ st.dirty /\ ~(O_APPEND \subseteq st.flags)
          /\ Writable(make_rdwr(st.flags))) =>
          release(Mount, fh, "ok").m.backing[st.fd.ino] = Encrypt(st.buffer)

(***************************************************************************)
(* C3: in read/write mode, a read at offset 0 that follows a successful    *)
(* write at offset 0 on the same handle returns the written bytes.         *)
(***************************************************************************)
C3_ReadAfterWrite ==
    read_ =>
      \A fh \in DOMAIN open_fds_, buf \in Plaintexts \ {<<>>} :
         LET w == write(Mount, fh, buf, 0)
             d == read(w.m, fh, Len(buf), 0, "ok")
         IN  w.ret = Len(buf) => d.ret = Len(buf) /\ d.out = buf

(***************************************************************************)
(* C4 as stated: every open-file state with dirty has buffer_set.          *)
(***************************************************************************)
C4_DirtyImpliesBufferSet ==
    \A fh \in DOMAIN open_fds_ :
       open_fds_[fh].dirty => open_fds_[fh].buffer_set

(***************************************************************************)
(* C4 amended: no callback leaves a state dirty without buffer_set unless  *)
(* the state was without buffer_set before the callback; so dirty implies  *)
(* buffer_set for every state from the moment its buffer is known, and     *)
(* only a state opened on a non-empty file and not loaded since can be     *)
(* dirty without buffer_set.                                               *)
(***************************************************************************)
C4_DirtyOnlyIfUnloaded ==
    [][\A fh \in DOMAIN open_fds_' :
          (open_fds_'[fh].dirty /\ ~open_fds_'[fh].buffer_set) =>
             (fh \in DOMAIN open_fds_ /\ ~open_fds_[fh].buffer_set)]_vars

\* a state opened on an old file has been loaded and then written
C4_Witness ==
    \E fh \in DOMAIN open_fds_ :
       LET st == open_fds_[fh] IN
       /\ ~(O_CREAT \subseteq st.flags)
       /\ st.buffer_set /\ st.dirty /\ st.wrote
       /\ st.fd.pos > 0

(***************************************************************************)
(* C5: at most one open-file state per logical path in the id table.       *)
(***************************************************************************)
C5_OneStatePerPath ==
    \A f1, f2 \in DOMAIN open_fds_ :
       open_fds_[f1].path = open_fds_[f2].path => f1 = f2

(***************************************************************************)
(* C6: after a successful rename(A, B) of distinct paths, A has no entry   *)
(* in the path table and, if A had the state S, B's entry is S, with       *)
(* S.path = B and S's buffer and dirty flag unchanged.                     *)
(***************************************************************************)
C6_RenameAtomic ==
    \A A \in Paths, B \in Paths :
       LET r == rename(Mount, A, B) IN
       (A # B /\ r.ret = 0 /\ r.found) =>
          /\ A \notin DOMAIN r.m.paths
          /\ A \in DOMAIN open_paths_ =>
                LET id == open_paths_[A] IN
                /\ B \in DOMAIN r.m.paths
                /\ r.m.paths[B] = id
                /\ r.m.fds[id].path = B
                /\ r.m.fds[id].buffer = open_fds_[id].buffer
                /\ r.m.fds[id].dirty = open_fds_[id].dirty

(***************************************************************************)
(* C7: append.  From every reachable state, for every path that is not     *)
(* open and whose file is a well-formed F with plaintext P, and every      *)
(* non-empty W: open(path, O_APPEND|O_WRONLY), write(W, offset 0), release *)
(* leave the file F followed by one new message, the encryption of W; in   *)
(* read/write mode a following open and read return |P| + |W| and P        *)
(* followed by W.                                                          *)
(***************************************************************************)
AppendTrip(m, path, W, size) ==
    LET o  == open(m, path, O_WRONLY \cup O_APPEND)
        w  == write(o.m, o.fh, W, 0)
        r  == release(w.m, o.fh, "ok")
        o2 == open(r.m, path, O_RDONLY)
        d  == read(o2.m, o2.fh, size, 0, "ok")
    IN  [ok   |-> o.ret = 0 /\ o.found /\ w.ret = Len(W) /\ o2.ret = 0,
         file |-> r.m.backing[m.dir[path]],
         ret  |-> d.ret, out |-> d.out]

C7_Append ==
    \A path \in Paths, W \in Plaintexts \ {<<>>} :
       (path \notin DOMAIN open_paths_ /\ dir[path] # NoIno
          /\ PlainOf(backing[dir[path]]).ok) =>
          LET F == backing[dir[path]]
              P == PlainOf(F).plain
              t == AppendTrip(Mount, path, W, Len(P) + Len(W))
          IN  /\ t.ok
              /\ t.file = F \o Encrypt(W)
              /\ read_ => t.ret = Len(P) + Len(W) /\ t.out = P \o W

\* <<2, 1>> has been written through a handle opened with O_APPEND|O_WRONLY
\* on the old file with plaintext <<1>>; its release appends the message
\* and the next reader gets <<1, 2, 1>>
C7_Witness ==
    /\ read_
    /\ \E fh \in DOMAIN open_fds_ :
          LET st == open_fds_[fh]
              r  == release(Mount, fh, "ok")
              o  == open(r.m, st.path, O_RDONLY)
              d  == read(o.m, o.fh, 3, 0, "ok")
          IN  /\ st.flags = O_WRONLY \cup O_APPEND /\ st.references = 1
              /\ st.wrote /\ st.buffer = <<2, 1>>
              /\ backing[st.fd.ino] = Encrypt(<<1>>)
              /\ r.m.backing[st.fd.ino] = Encrypt(<<1>>) \o Encrypt(<<2, 1>>)
              /\ d.ret = 3 /\ d.out = <<1, 2, 1>>

(***************************************************************************)
(* C8: two handles share one buffer.  From every reachable state and for   *)
(* every path that names no file: after handle A = create(path) wrote buf  *)
(* and handle B = open(path), every read through B returns the bytes of    *)
(* buf at its offset, and a later write through B is what the next read    *)
(* through A returns.                                                      *)
(***************************************************************************)
C8_SharedBuffer ==
    \A path \in Paths, buf \in Plaintexts \ {<<>>}, offset \in 0..MaxLen,
       size \in 1..MaxLen :
       dir[path] = NoIno =>
          LET a  == create(Mount, path, O_RDWR)
              w  == write(a.m, a.fh, buf, 0)
              b  == open(w.m, path, O_RDONLY)
              d  == read(b.m, b.fh, size, offset, "ok")
              w2 == write(d.m, b.fh, <<1>>, 0)
              d2 == read(w2.m, a.fh, size, offset, "ok")
          IN  /\ a.ret = 0 /\ b.ret = 0
              /\ d.out = Slice(buf, offset, size)
              /\ d2.out = Slice(CopyAt(buf, 0, <<1>>), offset, size)

(***************************************************************************)
(* C9: read(size, offset) with offset >= 0 on a state whose buffer is      *)
(* known returns n = min(|buffer| - offset, size) (0 at or after the end)  *)
(* and the n bytes of the buffer from offset on, in both modes.            *)
(***************************************************************************)
C9_ReadAtOffset ==
    \A fh \in DOMAIN open_fds_, offset \in 0..(MaxLen + 1), size \in 1..MaxLen :
       LET st == open_fds_[fh]
           d  == read(Mount, fh, size, offset, "ok")
       IN  st.buffer_set =>
              /\ d.ret = Len(Slice(st.buffer, offset, size))
              /\ d.out = Slice(st.buffer, offset, size)

(***************************************************************************)
(* C10: a state on which a write of size > 0 has succeeded is dirty until  *)
(* it is flushed (a state is flushed only when it is destroyed).           *)
(***************************************************************************)
C10_WrittenIsDirty ==
    \A fh \in DOMAIN open_fds_ : open_fds_[fh].wrote => open_fds_[fh].dirty

(***************************************************************************)
(* C11: every entry of the id table has references >= 1, and references    *)
(* counts the handles: create() returns a new id whose entry has 1, open() *)
(* returns a new id whose entry has 1 or the id of the path's entry with   *)
(* one more, release() takes one off its id's entry, and none of them      *)
(* touches another entry; the release that takes the last one removes the  *)
(* id entry and the entry of the state's path, so that no path entry names *)
(* the id.                                                                 *)
(***************************************************************************)
OthersKept(m1, m2, fh) ==
    \A id \in DOMAIN m1.fds \ {fh} :
       id \in DOMAIN m2.fds /\ m2.fds[id].references = m1.fds[id].references

C11_Refcount ==
    /\ \A fh \in DOMAIN open_fds_ : open_fds_[fh].references >= 1
    /\ \A path \in DOMAIN open_paths_ : open_paths_[path] \in DOMAIN open_fds_
    /\ \A path \in Paths :
          LET c == create(Mount, path, O_RDWR) IN
          c.ret = 0 =>
             /\ c.fh \notin DOMAIN open_fds_
             /\ DOMAIN c.m.fds = DOMAIN open_fds_ \cup {c.fh}
             /\ c.m.fds[c.fh].references = 1
             /\ OthersKept(Mount, c.m, c.fh)
    /\ \A path \in Paths, flags \in OpenFlags :
          LET o == open(Mount, path, flags) IN
          (o.ret = 0 /\ o.found) =>
             /\ DOMAIN o.m.fds = DOMAIN open_fds_ \cup {o.fh}
             /\ o.m.fds[o.fh].references =
                   IF o.fh \in DOMAIN open_fds_
                   THEN open_fds_[o.fh].references + 1 ELSE 1
             /\ OthersKept(Mount, o.m, o.fh)
    /\ \A fh \in DOMAIN open_fds_ :
          LET st == open_fds_[fh]
              r  == release(Mount, fh, "ok")
          IN  /\ OthersKept(Mount, r.m, fh)
              /\ IF st.references > 1
                 THEN /\ DOMAIN r.m.fds = DOMAIN open_fds_
                      /\ r.m.fds[fh].references = st.references - 1
                      /\ r.m.paths = open_paths_
                 ELSE /\ DOMAIN r.m.fds = DOMAIN open_fds_ \ {fh}
                      /\ st.path \notin DOMAIN r.m.paths
                      /\ \A p \in DOMAIN r.m.paths : r.m.paths[p] # fh

\* the first id has been released to nothing and the second is held by two
\* handles
C11_Witness ==
    /\ next_ = 2
    /\ DOMAIN open_fds_ = {1}
    /\ open_fds_[1].references = 2
    /\ DOMAIN open_paths_ = {open_fds_[1].path}
    /\ open_paths_[open_fds_[1].path] = 1

(***************************************************************************)
(* C12: in write-only mode, open() with O_RDONLY of a path that is not     *)
(* open and whose file exists and is not empty returns -EACCES and leaves  *)
(* the tables as they were.                                                *)
(***************************************************************************)
C12_OpenReadOnlyDenied ==
    ~read_ =>
      \A path \in Paths :
         (path \notin DOMAIN open_paths_ /\ dir[path] # NoIno
            /\ backing[dir[path]] # <<>>) =>
            LET o == open(Mount, path, O_RDONLY)
            IN  o.ret = -EACCES /\ o.m = Mount

(***************************************************************************)
(* C13: in write-only mode, read() on a state without buffer_set returns   *)
(* -EACCES and copies nothing, whatever flags the state was opened with:   *)
(* for the states of the table, and for the state that open() with         *)
(* O_WRONLY, with or without O_CREAT and O_APPEND, makes on a file that    *)
(* exists and is not empty, after a write on it.                           *)
(***************************************************************************)
C13_ReadDenied ==
    ~read_ =>
      /\ \A fh \in DOMAIN open_fds_, offset \in 0..1 :
            LET d == read(Mount, fh, 3, offset, "ok") IN
            ~open_fds_[fh].buffer_set => d.ret = -EACCES /\ d.out = <<>>
      /\ \A path \in Paths,
            flags \in {O_WRONLY, O_WRONLY \cup O_CREAT,
                       O_WRONLY \cup O_CREAT \cup O_APPEND} :
            (path \notin DOMAIN open_paths_ /\ dir[path] # NoIno
               /\ backing[dir[path]] # <<>>) =>
               LET o == open(Mount, path, flags)
                   w == write(o.m, o.fh, <<2, 1>>, 0)
                   d == read(w.m, o.fh, 3, 0, "ok")
               IN  (o.ret = 0 /\ ~o.m.fds[o.fh].buffer_set) =>
                      d.ret = -EACCES /\ d.out = <<>>

(***************************************************************************)
(* C14: in write-only mode, access(path, mode) with R_OK in mode returns   *)
(* -EACCES for every path and every result of the host's access(2), its    *)
(* failures included.                                                      *)
(***************************************************************************)
C14_AccessDenied ==
    ~read_ =>
      \A path \in Paths, mode \in {R_OK, R_OK \cup W_OK} :
         \A herrno \in HostAccess(Mount, path) :
            access(Mount, path, mode, herrno) = -EACCES

(***************************************************************************)
(* C15: no callback returns a positive number on failure.  create, open,   *)
(* truncate, ftruncate, release, rename, getattr, fgetattr and access      *)
(* return 0 or a negative errno, and a call in which the cipher tool       *)
(* failed (in the load or in the flush) returns a negative errno; read     *)
(* and write return a byte count only when nothing failed.                 *)
(***************************************************************************)
C15_NegativeErrno ==
    /\ \A path \in Paths, flags \in OpenFlags :
          /\ create(Mount, path, flags).ret <= 0
          /\ open(Mount, path, flags).ret <= 0
    /\ \A oldpath \in Paths, newpath \in Paths :
          rename(Mount, oldpath, newpath).ret <= 0
    /\ \A path \in Paths, mode \in AccessModes :
          \A herrno \in HostAccess(Mount, path) :
             access(Mount, path, mode, herrno) <= 0
    /\ \A fh \in Fhs, g \in GpgOutcomes :
          LET d == read(Mount, fh, 3, 0, g)
              s == statfd(Mount, fh, g)
          IN  /\ (g # "ok" /\ d.ran) => d.ret < 0
              /\ s.ret <= 0
              /\ (g # "ok" /\ s.ran) => s.ret < 0
              /\ release(Mount, fh, g).ret <= 0
    /\ \A fh \in Fhs, buf \in Bufs, offset \in {-1, 0} :
          LET w == write(Mount, fh, buf, offset) IN
          w.ret < 0 \/ w.ret = Len(buf)
    /\ \A fh \in Fhs, offset \in {-1, 0, 1}, g \in GpgOutcomes :
          LET t == truncatefd(Mount, fh, offset, g) IN
          /\ t.ret <= 0
          /\ (g # "ok" /\ t.ran) => t.ret < 0
    /\ \A path \in Paths, g \in GpgOutcomes :
          LET s == getattr(Mount, path, g) IN
          /\ s.ret <= 0
          /\ (g # "ok" /\ s.ran) => s.ret < 0
    /\ \A path \in Paths, offset \in {-1, 0, 1}, buffer_set \in BOOLEAN,
          g \in GpgOutcomes, ge \in EncOutcomes :
          LET t == truncate(Mount, path, offset, buffer_set, g, ge) IN
          /\ t.ret <= 0
          /\ ((g # "ok" /\ t.ran) \/ (ge # "ok" /\ t.eran)) => t.ret < 0

(***************************************************************************)
(* C16: in read/write mode, for every path that is not open and whose file *)
(* is a well-formed F with plaintext P, and every n > 0: after open(path), *)
(* ftruncate(handle, n) has made the buffer P resized to n and dirty, and  *)
(* after release, open and read return n and P resized to n.               *)
(***************************************************************************)
C16_FtruncateResizes ==
    read_ =>
      \A path \in Paths, n \in 1..(MaxLen + 1) :
         (path \notin DOMAIN open_paths_ /\ dir[path] # NoIno
            /\ PlainOf(backing[dir[path]]).ok) =>
            LET P  == PlainOf(backing[dir[path]]).plain
                o  == open(Mount, path, O_RDWR)
                t  == truncatefd(o.m, o.fh, n, "ok")
                r  == release(t.m, o.fh, "ok")
                o2 == open(r.m, path, O_RDONLY)
                d  == read(o2.m, o2.fh, n + 1, 0, "ok")
            IN  /\ o.ret = 0 /\ t.ret = 0 /\ o2.ret = 0
                /\ t.m.fds[o.fh].buffer = Resize(P, n)
                /\ t.m.fds[o.fh].dirty
                /\ d.ret = n /\ d.out = Resize(P, n)

(***************************************************************************)
(* C17: in read/write mode, for every path that is not open and whose file *)
(* is a well-formed F with plaintext P, and every n > 0: when              *)
(* truncate(path, n) returns 0, the file decrypts to P resized to n and    *)
(* the tables are as they were, whatever the transient state's             *)
(* uninitialized buffer_set held.                                          *)
(***************************************************************************)
C17_TruncateResizes ==
    read_ =>
      \A path \in Paths, n \in 1..(MaxLen + 1), buffer_set \in BOOLEAN :
         (path \notin DOMAIN open_paths_ /\ dir[path] # NoIno
            /\ PlainOf(backing[dir[path]]).ok) =>
            LET P == PlainOf(backing[dir[path]]).plain
                t == truncate(Mount, path, n, buffer_set, "ok", "ok")
                Q == PlainOf(t.m.backing[dir[path]])
            IN  t.ret = 0 =>
                   /\ Q.ok /\ Q.plain = Resize(P, n)
                   /\ t.m.paths = open_paths_ /\ t.m.fds = open_fds_

C19_TruncateZeroIdempotent ==
    \A path \in Paths, b1 \in BOOLEAN, b2 \in BOOLEAN :
       LET t1 == truncate(Mount, path, 0, b1, "ok", "ok")
           t2 == truncate(t1.m, path, 0, b2, "ok", "ok")
       IN  t2.ret = t1.ret /\ t2.m = t1.m

\* no handle was ever given out and the file that the mount found at /a is
\* empty: truncate("/a", 0) has emptied it, and one more changes nothing
C19_Witness ==
    /\ next_ = 0
    /\ dir["/a"] # NoIno
    /\ backing[dir["/a"]] = <<>>
    /\ truncate(Mount, "/a", 0, FALSE, "ok", "ok").ret = 0
    /\ truncate(Mount, "/a", 0, FALSE, "ok", "ok").m = Mount

(***************************************************************************)
(* C20: fgetattr on a handle, and getattr on a path that is open, report   *)
(* st_size from the state: the length of the buffer when buffer_set holds, *)
(* else the backing size plus the length of the buffer when the flags have *)
(* O_APPEND, else the backing size.  In read/write mode the call loads the *)
(* buffer first, so a call that succeeds reports the length of the         *)
(* buffer; in write-only mode the call succeeds and changes nothing.       *)
(***************************************************************************)
C20_StatSize ==
    /\ \A fh \in DOMAIN open_fds_ :
          LET r  == statfd(Mount, fh, "ok")
              st == r.m.fds[fh]
              s  == Len(backing[st.fd.ino])
          IN  /\ r.ret = 0 =>
                    r.st_size = IF st.buffer_set THEN Len(st.buffer)
                                ELSE IF O_APPEND \subseteq st.flags
                                THEN s + Len(st.buffer)
                                ELSE s
              /\ (read_ /\ r.ret = 0) =>
                    st.buffer_set /\ r.st_size = Len(st.buffer)
              /\ ~read_ => r.ret = 0 /\ r.m = Mount
    /\ \A path \in DOMAIN open_paths_ :
          getattr(Mount, path, "ok") = statfd(Mount, open_paths_[path], "ok")

\* write-only mode: bytes were written through a handle opened with
\* O_APPEND on an old file, and getattr reports the file's size plus theirs
C20_Witness ==
    /\ ~read_
    /\ \E fh \in DOMAIN open_fds_ :
          LET st == open_fds_[fh] IN
          /\ O_APPEND \subseteq st.flags /\ ~st.buffer_set
          /\ st.buffer = <<2, 1>>
          /\ backing[st.fd.ino] # <<>>
          /\ st.path \in DOMAIN open_paths_ /\ open_paths_[st.path] = fh
          /\ getattr(Mount, st.path, "ok").st_size
                = Len(backing[st.fd.ino]) + 2

(***************************************************************************)
(* C21: in write-only mode getattr on a path that is not open and is not a *)
(* directory reports the host mode with S_IRUSR, S_IRGRP and S_IROTH       *)
(* cleared and every other bit as the host has it; for a directory, and in *)
(* read/write mode, it reports the host mode unchanged.                    *)
(***************************************************************************)
C21_ReadBits == S_IRUSR \cup S_IRGRP \cup S_IROTH

C21_GetattrMode ==
    \A path \in Paths, st_mode \in HostModes :
        (path \notin DOMAIN open_paths_ /\ getattr(Mount, path, "ok").ret = 0)
        => LET reported == getattr_st_mode(Mount, path, st_mode)
           IN  IF ~read_ /\ S_IFDIR \cap st_mode = {}
               THEN /\ reported \cap C21_ReadBits = {}
                    /\ reported \ C21_ReadBits = st_mode \ C21_ReadBits
               ELSE reported = st_mode

C21_Witness ==
    /\ ~read_
    /\ \E path \in Paths :
        /\ path \notin DOMAIN open_paths_
        /\ next_ > 0
        /\ getattr(Mount, path, "ok").ret = 0
        /\ getattr_st_mode(Mount, path, S_IRUSR \cup S_IWUSR \cup S_IROTH)
               = S_IWUSR
        /\ getattr_st_mode(Mount, path, S_IFDIR \cup S_IRUSR)
               = S_IFDIR \cup S_IRUSR

(***************************************************************************)
(* C22: open() on a path that already has an open-file state adds one to   *)
(* that state's reference count, returns its id and changes nothing else:  *)
(* flags, buffer, buffer_set, dirty and descriptor of the state stay, and  *)
(* no new descriptor, id or file appears, whatever the flags.              *)
(***************************************************************************)
C22_OpenShares ==
    \A path \in Paths, flags \in OpenFlags :
        (\E fh \in DOMAIN open_fds_ : open_fds_[fh].path = path)
        => LET r == open(Mount, path, flags)
           IN  /\ r.ret = 0
               /\ r.fh \in DOMAIN open_fds_
               /\ open_fds_[r.fh].path = path
               /\ r.m = [Mount EXCEPT !.fds[r.fh].references = @ + 1]

(***************************************************************************)
(* C23: ids are never reused.  The counter never goes down, every id in    *)
(* the id table was handed out by it, and an id that enters the id table   *)
(* is at or above the counter before the step, hence above every id handed *)
(* out earlier, those of destroyed states included.                        *)
(***************************************************************************)
C23_IdsNeverReused ==
    [][/\ next_' >= next_
       /\ \A fh \in DOMAIN open_fds_ : fh < next_
       /\ \A fh \in DOMAIN open_fds_' \ DOMAIN open_fds_ :
             fh >= next_ /\ fh < next_']_vars

C23_Witness ==
    /\ next_ = 2
    /\ DOMAIN open_fds_ = {1}
    /\ create(Mount, "/a", O_RDWR).fh = 2
    /\ open(Mount, "/b", O_RDWR \cup O_CREAT).fh = 2

(***************************************************************************)
(* C24: write(buf, offset) on a known handle.  With size > 0 and           *)
(* offset >= 0 it returns size; the buffer then has length                 *)
(* max(old length, offset + size), holds buf at [offset, offset + size),   *)
(* its old bytes elsewhere and zeros in a gap between the old end and      *)
(* offset; dirty is set, and nothing but this state's buffer and dirty     *)
(* flag changes (the backing file least of all).  With size = 0 it returns *)
(* 0, with offset < 0 and size > 0 it fails with EINVAL, and either way    *)
(* nothing changes.                                                        *)
(***************************************************************************)
C24_Offsets == (-1)..(MaxLen + 2)

C24_Write ==
    \A fh \in DOMAIN open_fds_, buf \in Plaintexts, offset \in C24_Offsets :
        LET old  == open_fds_[fh]
            size == Len(buf)
            r    == write(Mount, fh, buf, offset)
            new  == r.m.fds[fh]
        IN  IF size = 0
            THEN r.ret = 0 /\ r.m = Mount
            ELSE IF offset < 0
            THEN r.ret = -EINVAL /\ r.m = Mount
            ELSE /\ r.ret = size
                 /\ Len(new.buffer) = Max(Len(old.buffer), offset + size)
                 /\ \A i \in 1..Len(new.buffer) :
                       new.buffer[i] =
                          IF i > offset /\ i <= offset + size
                          THEN buf[i - offset]
                          ELSE IF i <= Len(old.buffer) THEN old.buffer[i]
                          ELSE 0
                 /\ new.dirty
                 /\ r.m.backing = backing /\ r.m.dir = dir
                 /\ r.m.paths = open_paths_ /\ r.m.next = next_
                 /\ DOMAIN r.m.fds = DOMAIN open_fds_
                 /\ \A other \in DOMAIN open_fds_ \ {fh} :
                       r.m.fds[other] = open_fds_[other]
                 /\ [new EXCEPT !.buffer = old.buffer, !.dirty = old.dirty,
                                !.wrote = old.wrote] = old

C24_Witness ==
    \E fh \in DOMAIN open_fds_ :
        LET st == open_fds_[fh] IN
        /\ st.wrote /\ st.dirty
        /\ st.buffer = <<2, 1>>
        /\ write(Mount, fh, <<1>>, 3).m.fds[fh].buffer = <<2, 1, 0, 1>>
        /\ write(Mount, fh, <<1>>, 1).m.fds[fh].buffer = <<2, 1>>
        /\ write(Mount, fh, <<1>>, -1).ret = -EINVAL

(***************************************************************************)
(* C25: while an open-file state exists set_recipients() throws and leaves *)
(* the list as it is, so the list a flush of a state would use (the        *)
(* mount's list at that time) is the one configured when the state was     *)
(* constructed.                                                            *)
(***************************************************************************)
C25_RecipientsFixed ==
    /\ \A recipients \in RecipientLists :
          open_fds_ # <<>> =>
             LET r == set_recipients(Mount, recipients)
             IN  r.threw /\ r.recipients_ = recipients_
    /\ \A fh \in DOMAIN open_fds_ : open_fds_[fh].configured = recipients_

C25_Witness ==
    /\ recipients_ = <<"k2", "k1">>
    /\ \E fh \in DOMAIN open_fds_ :
          /\ open_fds_[fh].dirty
          /\ open_fds_[fh].configured = <<"k2", "k1">>
    /\ set_recipients(Mount, <<"k1">>).threw

(***************************************************************************)
(* C26: a failed decryption, by a nonzero exit of the child or by an error *)
(* of communicate(), makes read, ftruncate, fgetattr, getattr and truncate *)
(* fail with EIO and leaves the state with buffer_set = false, so that the *)
(* next call decrypts again.                                               *)
(***************************************************************************)
C26_Failures == {"exit", "comm"}

C26_DecryptFailureIsEIO ==
    /\ \A fh \in DOMAIN open_fds_, g \in C26_Failures :
          LET d == read(Mount, fh, 1, 0, g)
              t == truncatefd(Mount, fh, 1, g)
              s == statfd(Mount, fh, g)
          IN  /\ d.ran => d.ret = -EIO /\ ~d.m.fds[fh].buffer_set
              /\ t.ran => t.ret = -EIO /\ ~t.m.fds[fh].buffer_set
              /\ s.ran => s.ret = -EIO /\ ~s.m.fds[fh].buffer_set
    /\ \A path \in Paths, g \in C26_Failures :
          LET s == getattr(Mount, path, g)
              t == truncate(Mount, path, 1, FALSE, g, "ok")
          IN  /\ s.ran => /\ s.ret = -EIO
                          /\ ~s.m.fds[open_paths_[path]].buffer_set
              /\ t.ran => t.ret = -EIO

(***************************************************************************)
(* C27: callbacks do not interleave.  A create() that ran concurrently     *)
(* with an open() of the same path ends as one of the two serial orders    *)
(* does: the same values returned to both callers and the same mount       *)
(* (tables, states, directory and files).                                  *)
(***************************************************************************)
C27_Outcome(c, o, m) ==
    [create |-> [ret |-> c.ret, fh |-> c.fh],
     open   |-> [ret |-> o.ret, fh |-> o.fh],
     m      |-> m]

C27_CreateThenOpen(m0, a, b) ==
    LET c == create(m0, a.path, a.flags0)
        o == open(c.m, b.path, b.flags0)
    IN  C27_Outcome(c, o, o.m)

C27_OpenThenCreate(m0, a, b) ==
    LET o == open(m0, b.path, b.flags0)
        c == create(o.m, a.path, a.flags0)
    IN  C27_Outcome(c, o, c.m)

C27_CreateSerializable ==
    \A i \in DOMAIN creating :
        LET a == creating[i] IN
        \A k \in DOMAIN a.seen :
            LET b == a.seen[k]
                c == create_locked(Mount, a.path, a.flags, a.ino)
            IN  (Len(a.seen) = 1 /\ b.path = a.path)
                => C27_Outcome(c, b, c.m) \in
                      {C27_CreateThenOpen(a.m0, a, b),
                       C27_OpenThenCreate(a.m0, a, b)}

(***************************************************************************)
(* C28: load_buffer splits the backing file into consecutive blocks that   *)
(* partition it.  Every block but the last ends with the first terminator  *)
(* after its start, the last block is all that remains (with or without a  *)
(* terminator), the blocks put together are the whole file, and when the   *)
(* load succeeds the buffer is the plaintexts of the blocks in file order. *)
(* Files shorter than the terminator are left out here.                    *)
(***************************************************************************)
RECURSIVE C28_Concat(_)
C28_Concat(seqs) ==
    IF seqs = <<>> THEN <<>> ELSE Head(seqs) \o C28_Concat(Tail(seqs))

C28_EndsAtFirstTerminator(block) ==
    \A k \in terminator_size..Len(block) :
        SubSeq(block, k - terminator_size + 1, k) = terminator
        <=> k = Len(block)

C28_HasNoTerminator(block) ==
    \A k \in terminator_size..Len(block) :
        SubSeq(block, k - terminator_size + 1, k) # terminator

C28_BlocksPartition ==
    \A ino \in DOMAIN backing :
        LET F == backing[ino]
            B == Blocks(F, 0)
        IN  (F = <<>> \/ Len(F) >= terminator_size) =>
            /\ C28_Concat(B) = F
            /\ \A i \in 1..(Len(B) - 1) : C28_EndsAtFirstTerminator(B[i])
            /\ B # <<>> => \/ C28_EndsAtFirstTerminator(B[Len(B)])
                           \/ C28_HasNoTerminator(B[Len(B)])
            /\ \A fh \in DOMAIN open_fds_ :
                  LET st == open_fds_[fh]
                      l  == load_buffer(st, F, "ok")
                  IN  (st.fd.ino = ino /\ st.fd.pos = 0 /\ l.ran /\ l.ret = 0)
                      => l.st.buffer =
                            C28_Concat([i \in 1..Len(B) |-> Payload(B[i])])

(***************************************************************************)
(* C29: in read/write mode open and create upgrade only O_WRONLY, to       *)
(* O_RDWR.  A request with access mode O_RDONLY (or O_RDWR) reaches the    *)
(* host open with its access mode unchanged, the flags outside the access  *)
(* mode are never changed, and an upgraded open that fails with EACCES is  *)
(* tried once more with the flags of the caller.                           *)
(***************************************************************************)
C29_FlagWords ==
    {acc \cup more : acc \in {O_RDONLY, O_WRONLY, O_RDWR},
                     more \in {{}, O_APPEND, O_CREAT}}

C29_Upgraded(flags) ==
    IF flags \cap O_ACCMODE = O_WRONLY
    THEN (flags \ O_WRONLY) \cup O_RDWR
    ELSE flags

C29_AsClaimed(attempts, flags) ==
    /\ attempts[1] = C29_Upgraded(flags)
    /\ attempts[1] # flags => attempts = <<attempts[1], flags>>

C29_OnlyWronlyUpgraded ==
    read_ =>
       \A flags0 \in C29_FlagWords :
          /\ C29_AsClaimed(open_attempts(flags0), flags0)
          /\ C29_AsClaimed(create_attempts(flags0), flags0 \cup O_CREAT)

(***************************************************************************)
(* C30: every id stored in the path table is in the id table, and the      *)
(* state it names carries the path of the entry; so the assertion of open  *)
(* (the id found by the path is in the id table) and the assertion of      *)
(* rename (the id of the renamed path is in the id table) hold in every    *)
(* call that can follow.                                                   *)
(***************************************************************************)
C30_PathIdsInIdTable ==
    \A path \in DOMAIN open_paths_ :
        LET id == open_paths_[path] IN
        /\ id \in DOMAIN open_fds_
        /\ open_fds_[id].path = path
        /\ \A flags \in OpenFlags : open(Mount, path, flags).found
        /\ \A newpath \in Paths : rename(Mount, path, newpath).found

C30_Witness ==
    /\ open_paths_ # <<>>
    /\ \E fh \in DOMAIN open_fds_ :
          /\ \A path \in DOMAIN open_paths_ : open_paths_[path] # fh
          /\ open_fds_[fh].path \in DOMAIN open_paths_
    /\ \E path \in DOMAIN open_paths_ :
          /\ rename(Mount, path, path).found
          /\ open(Mount, path, O_RDONLY).fh = open_paths_[path]

(***************************************************************************)
(* C31: whenever an open-file state is destroyed its reference count is 0, *)
(* on every path to ~internal: the last release, the transient state of    *)
(* truncate on a path that is not open, and the destruction of the mount   *)
(* object with whatever it still holds.                                    *)
(***************************************************************************)
C31_DestroyedUnreferenced ==
    /\ \A fh \in DOMAIN open_fds_ :
          \A st \in release_deletes(Mount, fh) : st.references = 0
    /\ \A path \in Paths, buffer_set \in BOOLEAN :
          \A st \in truncate_deletes(Mount, path, 1, buffer_set) :
             st.references = 0
    /\ \A st \in dtor_deletes(Mount) : st.references = 0

(***************************************************************************)
(* C32: for every backing file of at least one byte, shorter than the      *)
(* terminator or not, the scan of load_buffer compares only bytes of the   *)
(* file, and what it gives for the block that starts at offset satisfies   *)
(* offset <= new_offset <= file size, for every offset at which the block  *)
(* loop starts a scan; file size - terminator length is computed modulo    *)
(* the size of size_t.                                                     *)
(***************************************************************************)
C32_Starts(F) ==
    LET B == Blocks(F, 0)
    IN  {x \in {Len(C28_Concat(SubSeq(B, 1, k))) : k \in 0..Len(B)} :
            x < Len(F)}

C32_ScanInsideFile ==
    \A ino \in DOMAIN backing :
        LET F == backing[ino] IN
        Len(F) >= 1 =>
           \A offset \in C32_Starts(F) :
              LET new_offset == ScanTerminator(F, offset)
              IN  /\ new_offset # OutOfFile
                  /\ offset <= new_offset
                  /\ new_offset <= Len(F)

(***************************************************************************)
(* C33: in write-only mode no callback starts a decryption and load_buffer *)
(* is not invoked: read, ftruncate, fgetattr, getattr and truncate never   *)
(* start the cipher tool for reading, give the same result whatever the    *)
(* tool would do, and leave buffer, buffer_set and dirty as they are       *)
(* unless they are the truncation itself.  Every byte a read returns is a  *)
(* byte of the state's own buffer, which holds only what was written       *)
(* through the state since it was created, whatever the backing file       *)
(* holds.                                                                  *)
(***************************************************************************)
C33_OtherFiles == OldFiles \cup {<<>>}

C33_NoDecryption ==
    ~read_ =>
       /\ \A fh \in DOMAIN open_fds_ :
             open_fds_[fh].buffer # <<>> => open_fds_[fh].wrote
       /\ \A fh \in DOMAIN open_fds_, g \in GpgOutcomes :
             LET st == open_fds_[fh]
                 d  == read(Mount, fh, 3, 0, g)
                 t0 == truncatefd(Mount, fh, 0, g)
                 t1 == truncatefd(Mount, fh, 1, g)
                 s  == statfd(Mount, fh, g)
             IN  /\ ~d.ran /\ ~t0.ran /\ ~t1.ran /\ ~s.ran
                 /\ d = read(Mount, fh, 3, 0, "ok")
                 /\ t0 = truncatefd(Mount, fh, 0, "ok")
                 /\ s = statfd(Mount, fh, "ok")
                 /\ d.m = Mount /\ s.m = Mount
                 /\ t1.ret = -EACCES /\ t1.m = Mount
                 /\ t0.m.fds[fh].buffer_set = st.buffer_set
                 /\ d.out # <<>> =>
                       /\ st.wrote
                       /\ d.out = Slice(st.buffer, 0, 3)
                 /\ \A other \in C33_OtherFiles :
                       LET m2 == [Mount EXCEPT !.backing[st.fd.ino] = other]
                       IN  read(m2, fh, 3, 0, g).out = d.out
       /\ \A path \in Paths, g \in GpgOutcomes :
             LET s == getattr(Mount, path, g)
                 t == truncate(Mount, path, 1, FALSE, g, "ok")
             IN  /\ ~s.ran /\ ~t.ran /\ ~t.transient
                 /\ s.m = Mount
                 /\ t.m.fds = open_fds_

C33_Witness ==
    /\ ~read_
    /\ \E fh \in DOMAIN open_fds_ :
          LET st == open_fds_[fh] IN
          /\ st.wrote
          /\ Len(backing[st.fd.ino]) > 0
          /\ read(Mount, fh, 3, 0, "exit").out = <<2, 1>>
          /\ read(Mount, fh, 3, 0, "exit").ret = 2

====
